---- MODULE Spec2Model ----
(***************************************************************************)
(* Project resolution of syntool (src/project.py): the construction of a   *)
(* Project from a manifest and a directory tree, the file discoverer       *)
(* (_file_lists), the uniqueness-enforcing registration                    *)
(* (_append_file_to_map_parteval) and the testbench resolver               *)
(* (_load_testbench_files).                                                *)
(*                                                                         *)
(* Text is a tuple of one-character strings, so that suffix splitting,     *)
(* slicing and template formatting are computed and not assumed.  A        *)
(* directory path is a tuple of path components; "/" as first component    *)
(* marks an absolute path.                                                 *)
(***************************************************************************)
EXTENDS Integers, Sequences, FiniteSets, TLC

VARIABLES
    pc,             \* position of Project.__init__
    result,         \* "running", "ok", or the class of the error raised
    err,            \* what the raised error names (a path, a module name)
    absent,         \* the required key the manifest files lack, if any
    looked,         \* required keys looked up so far
    manifest,       \* project-table values looked up so far
    ip_n,           \* length of the manifest's ip sequence (0 before it is read)
    ip_idx,         \* loop position of _load_ip_cores
    ip_decl,        \* ip declarations iterated so far, with their registries
    language,       \* self.language
    top_module,     \* self.top_module
    root_dir,       \* self.root_dir
    files,          \* self.files
    test_bench,     \* self.test_bench
    ip_cores,       \* self.ip_cores (dict: insertion-ordered, unique keys)
    libs,           \* self.libs
    ext_including,  \* the local ext_including of __init__
    including_dir,  \* self.including_dir
    build_out_dir,  \* self.build_out_dir
    build_disk,     \* what the disk holds at the build directory's path
    walk,           \* one run of _file_lists with a registering callback
    tbres           \* one run of _load_testbench_files

vars == <<pc, result, err, absent, looked, manifest, ip_n, ip_idx, ip_decl, language, top_module,
          root_dir, files, test_bench, ip_cores, libs, ext_including,
          including_dir, build_out_dir, build_disk, walk, tbres>>

prjvars == <<pc, result, err, absent, looked, manifest, ip_n, ip_idx, ip_decl, language, top_module,
             root_dir, files, test_bench, ip_cores, libs, ext_including,
             including_dir, build_out_dir, build_disk>>

\* ------------------------------------------------------------------ bounds
\* Files one directory walk yields at most.
MaxFiles == 2
\* Entries of the manifest's ip sequence at most.
MaxIp == 2
\* Entries of the spec file's lib sequence at most.
MaxLibs == 1

\* -------------------------------------------------------------------- text
\* No value (an attribute not assigned yet, an error that names nothing).
None == <<>>

Range(s) == {s[i] : i \in 1..Len(s)}

\* Sequences over S of length at most n.
RECURSIVE SeqsUpTo(_, _)
SeqsUpTo(S, n) ==
    IF n = 0 THEN {<<>>}
    ELSE LET shorter == SeqsUpTo(S, n - 1)
         IN  shorter \cup {Append(s, x) : s \in {t \in shorter : Len(t) = n - 1}, x \in S}

\* Sequences without repetition over S, of length at most n.
InjSeqs(S, n) == {s \in SeqsUpTo(S, n) : Cardinality(Range(s)) = Len(s)}

\* p.rfind('.') counted from 1; 0 when p holds no dot.
LastDot(p) ==
    LET dots == {i \in 1..Len(p) : p[i] = "."}
    IN  IF dots = {} THEN 0 ELSE CHOOSE i \in dots : \A j \in dots : j <= i

\* os.path.splitext(fullpath)[1]: the text from the last dot of the last path
\* component on, unless only dots precede that dot in the component.
SplitextExt(file) ==
    LET d == LastDot(file)
    IN  IF d > 0 /\ (\E j \in 1..(d - 1) : file[j] # ".")
        THEN SubSeq(file, d, Len(file))
        ELSE <<>>

\* The Python slice s[:-n]: for n = 0 this is s[:0], the empty text.
SliceToMinus(s, n) ==
    IF n = 0 THEN <<>>
    ELSE IF n >= Len(s) THEN <<>>
    ELSE SubSeq(s, 1, Len(s) - n)

\* os.path.basename(fullpath)[:-len(ext_name)]
FileName(file) == SliceToMinus(file, Len(SplitextExt(file)))

\* ------------------------------------------------------------------- paths
\* The process's working directory.
Cwd == <<"/", "w">>

IsAbs(p) == Len(p) > 0 /\ p[1] = "/"

\* os.path.normpath on components: "." is dropped, ".." removes the component
\* before it (at the root it is dropped).
RECURSIVE NormFrom(_, _)
NormFrom(done, rest) ==
    IF rest = <<>> THEN done
    ELSE LET c == Head(rest)
         IN  IF c = "." THEN NormFrom(done, Tail(rest))
             ELSE IF c = ".."
                  THEN NormFrom(IF Len(done) > 1 THEN SubSeq(done, 1, Len(done) - 1)
                                ELSE done, Tail(rest))
                  ELSE NormFrom(Append(done, c), Tail(rest))

\* os.path.abspath: join with the working directory unless absolute, then
\* normalise.
AbsPath(p) == IF IsAbs(p) THEN NormFrom(<<"/">>, Tail(p)) ELSE NormFrom(Cwd, p)

\* ---------------------------------------------------------------- the disk
Fa_v  == <<"a", ".", "v">>
Fb_v  == <<"b", ".", "v">>
Fa_s  == <<"a", ".", "s">>
Fat_v == <<"a", "_", "t", ".", "v">>
Fm    == <<"m">>
Fdot  == <<".", "a">>
Fa_   == <<"a", ".">>
Fab_v == <<"a", ".", "b", ".", "v">>

\* One file as os.walk yields it: the subdirectory below the walked directory
\* (empty for the directory itself) and the file's name.
Entry(sub, file) == [sub |-> sub, file |-> file]

\* The directory tree the project lives in, by absolute directory: the files
\* os.walk yields for it, in the order it yields them.
Disk ==
    (<<"/", "w", "rtl">> :> <<Entry(<<>>, Fa_v), Entry(<<>>, Fb_v), Entry(<<"s">>, Fm)>>)
 @@ (<<"/", "w", "mix">> :> <<Entry(<<>>, Fa_v), Entry(<<>>, Fa_s)>>)
 @@ (<<"/", "w", "tb">>  :> <<Entry(<<>>, Fat_v), Entry(<<>>, Fb_v)>>)
 @@ (<<"/", "w", "ip1">> :> <<Entry(<<>>, Fa_v), Entry(<<"s">>, Fa_s)>>)
 @@ (<<"/", "w", "ip2">> :> <<Entry(<<>>, Fb_v), Entry(<<"s">>, Fa_v)>>)

\* os.walk(dir): a directory that does not exist yields nothing (os.walk
\* swallows the scandir error, its onerror being None).
OsWalk(dir) == IF AbsPath(dir) \in DOMAIN Disk THEN Disk[AbsPath(dir)] ELSE <<>>

\* ---------------------------------------------------------- file discoverer
\* The patterns of the model: ".*" and ".*\.v".
Patterns == {"any", "dotv"}

\* regexp.match(fullpath_text) for regexp = re.compile('\./' + pattern): the
\* joined path must start with "./", and the pattern is matched from there
\* on (re.match anchors the start only).
RegexpMatch(pattern, dir, entry) ==
    /\ Len(dir) > 0
    /\ dir[1] = "."
    /\ \/ pattern = "any"
       \/ /\ pattern = "dotv"
          /\ \E i \in 1..(Len(entry.file) - 1) :
                entry.file[i] = "." /\ entry.file[i + 1] = "v"

\* FileInfo(fullpath=filepath, ext_name=extname, filename=filename) for one
\* matched file; fullpath is os.path.abspath(os.path.join(path, file)).
FileInfoOf(dir, entry) ==
    [filename |-> FileName(entry.file),
     ext_name |-> SplitextExt(entry.file),
     fullpath |-> [dir |-> AbsPath(dir \o entry.sub), file |-> entry.file]]

\* The empty dict.
EmptyMap == <<>>

\* impl(filename, filepath, extname) of _append_file_to_map_parteval: raises
\* when the name is a key of target_map already, else inserts the FileInfo.
ImplOverwrites(target_map, info) ==
    [raised |-> FALSE,
     map |-> [k \in (DOMAIN target_map) \cup {info.filename} |->
                 IF k = info.filename THEN info ELSE target_map[k]]]
Impl(target_map, info) ==
    IF info.filename \in DOMAIN target_map
    THEN [raised |-> TRUE, map |-> target_map]
    ELSE [raised |-> FALSE, map |-> (info.filename :> info) @@ target_map]

\* _file_lists(dir, pattern, impl) over the files a walk yields: the map after
\* the run, and the colliding name when impl raised.
RECURSIVE FileListsFrom(_, _, _, _)
FileListsFrom(dir, pattern, listing, target_map) ==
    IF listing = <<>> THEN [raised |-> FALSE, map |-> target_map, name |-> <<>>]
    ELSE LET e == Head(listing)
             info == FileInfoOf(dir, e)
             r == Impl(target_map, info)
         IN  IF ~RegexpMatch(pattern, dir, e)
             THEN FileListsFrom(dir, pattern, Tail(listing), target_map)
             ELSE IF r.raised
                  THEN [raised |-> TRUE, map |-> target_map, name |-> info.filename]
                  ELSE FileListsFrom(dir, pattern, Tail(listing), r.map)

FileLists(dir, pattern) == FileListsFrom(dir, pattern, OsWalk(dir), EmptyMap)

\* ------------------------------------------------------- testbench resolver
\* A tb_file_fmt template: literal characters and the replacement field "{}".
Slot == "{}"

\* tb_fmt.format(module_name): every replacement field becomes the module
\* name, the literal characters stay.
RECURSIVE Format(_, _)
Format(tb_fmt, module_name) ==
    IF tb_fmt = <<>> THEN <<>>
    ELSE (IF Head(tb_fmt) = Slot THEN module_name ELSE <<Head(tb_fmt)>>)
         \o Format(Tail(tb_fmt), module_name)

\* One iteration of the loop of _load_testbench_files.
TbIterateNoTemplate(test_bench_, module_name, tb_fmt, test_bench_files) ==
    IF module_name \in DOMAIN test_bench_files
    THEN [k \in (DOMAIN test_bench_) \cup {module_name} |->
             IF k = module_name THEN test_bench_files[module_name]
             ELSE test_bench_[k]]
    ELSE test_bench_
TbIterate(test_bench_, module_name, tb_fmt, test_bench_files) ==
    LET tb_module == Format(tb_fmt, module_name)
    IN  IF tb_module \in DOMAIN test_bench_files
        THEN [k \in (DOMAIN test_bench_) \cup {module_name} |->
                 IF k = module_name THEN test_bench_files[tb_module]
                 ELSE test_bench_[k]]
        ELSE test_bench_

\* _load_testbench_files over the modules in the order given.
RECURSIVE LoadTestbenchFrom(_, _, _, _)
LoadTestbenchFrom(order, tb_fmt, test_bench_files, test_bench_) ==
    IF order = <<>> THEN test_bench_
    ELSE LoadTestbenchFrom(Tail(order), tb_fmt, test_bench_files,
                           TbIterate(test_bench_, Head(order), tb_fmt, test_bench_files))

\* An enumeration of a finite set (the iteration order of a dict's keys).
RECURSIVE SeqOf(_)
SeqOf(S) == IF S = {} THEN <<>>
            ELSE LET x == CHOOSE y \in S : TRUE IN <<x>> \o SeqOf(S \ {x})

LoadTestbenchFiles(files_, tb_fmt, test_bench_files) ==
    LoadTestbenchFrom(SeqOf(DOMAIN files_), tb_fmt, test_bench_files, EmptyMap)

\* ---------------------------------------------- idle values of the variables
WalkIdle == [status |-> "idle"]
TbIdle == [status |-> "idle"]

PrjIdle ==
    /\ pc = "idle"
    /\ result = "idle"
    /\ err = None
    /\ absent = {}
    /\ looked = {}
    /\ manifest = EmptyMap
    /\ ip_n = 0
    /\ ip_idx = 0
    /\ ip_decl = <<>>
    /\ language = None
    /\ top_module = None
    /\ root_dir = None
    /\ files = EmptyMap
    /\ test_bench = EmptyMap
    /\ ip_cores = <<>>
    /\ libs = <<>>
    /\ ext_including = <<>>
    /\ including_dir = <<>>
    /\ build_out_dir = None
    /\ build_disk = None

\* ------------------------------------------- one run of the file discoverer
\* File names a walked directory may hold: with a suffix, with two dots, with
\* none, a dot file, a name ending in a dot.
Fn == <<"n">>
WalkFiles == {Fa_v, Fa_s, Fb_v, Fm, Fn, Fdot, Fa_, Fab_v}
WalkEntries == {Entry(sub, f) : sub \in {<<>>, <<"s">>}, f \in WalkFiles}
WalkDirs == {<<".", "d">>, <<"d">>}

\* os.walk is top-down: the files of the directory itself come before those of
\* its subdirectories; the order within one directory is the platform's.
TopDown(listing) ==
    \A i, j \in 1..Len(listing) : i < j /\ listing[j].sub = <<>> => listing[i].sub = <<>>

WalkListings == {l \in InjSeqs(WalkEntries, MaxFiles) : TopDown(l)}

InitFileLists ==
    /\ PrjIdle
    /\ tbres = TbIdle
    /\ \E dir \in WalkDirs, pattern \in Patterns, listing \in WalkListings :
          walk = [status |-> "walking", dir |-> dir, pattern |-> pattern,
                  all |-> listing, rest |-> listing, map |-> EmptyMap,
                  reported |-> <<>>]

\* One iteration of "for file in files" of _file_lists, cont being impl.
FileListsStep ==
    /\ walk.status = "walking"
    /\ walk.rest # <<>>
    /\ LET e == Head(walk.rest)
           info == FileInfoOf(walk.dir, e)
           r == Impl(walk.map, info)
       IN  IF ~RegexpMatch(walk.pattern, walk.dir, e)
           THEN walk' = [walk EXCEPT !.rest = Tail(@)]
           ELSE walk' = [walk EXCEPT !.rest = Tail(@),
                                     !.reported = Append(@, info),
                                     !.map = r.map,
                                     !.status = IF r.raised THEN "raised" ELSE @]
    /\ UNCHANGED prjvars
    /\ UNCHANGED tbres

\* The walk is exhausted: _file_lists returns.
FileListsReturn ==
    /\ walk.status = "walking"
    /\ walk.rest = <<>>
    /\ walk' = [walk EXCEPT !.status = "returned"]
    /\ UNCHANGED prjvars
    /\ UNCHANGED tbres

NextFileLists == FileListsStep \/ FileListsReturn

SpecFileLists == InitFileLists /\ [][NextFileLists]_vars

\* ------------------------------------------ one run of the testbench resolver
TbStem == <<"t">>
A == <<"a">>
B == <<"b">>
At == <<"a", "_", "t">>
Bt == <<"b", "_", "t">>
TbModules == {A, B, At}
TbFileStems == {A, B, At, Bt, TbStem}
Templates == {<<Slot>>, <<Slot, "_", "t">>, <<"t">>}

\* The FileInfo of the file stem.v found while walking dir.
InfoIn(dir, stem) == FileInfoOf(dir, Entry(<<>>, stem \o <<".", "v">>))

InitTestbench ==
    /\ PrjIdle
    /\ walk = WalkIdle
    /\ \E order \in InjSeqs(TbModules, Cardinality(TbModules)),
          tb_fmt \in Templates, F \in SUBSET TbFileStems :
          tbres = [status |-> "looping",
                   files |-> [m \in Range(order) |-> InfoIn(<<".", "rtl">>, m)],
                   tb_fmt |-> tb_fmt,
                   test_bench_files |-> [k \in F |-> InfoIn(<<".", "tb">>, k)],
                   rest |-> order,
                   test_bench |-> EmptyMap]

\* One iteration of "for module_name, _file in self.files.items()".
TbStep ==
    /\ tbres.status = "looping"
    /\ tbres.rest # <<>>
    /\ tbres' = [tbres EXCEPT
                    !.rest = Tail(@),
                    !.test_bench = TbIterate(@, Head(tbres.rest), tbres.tb_fmt,
                                             tbres.test_bench_files)]
    /\ UNCHANGED prjvars
    /\ UNCHANGED walk

\* The loop is over: _load_testbench_files returns test_bench.
TbReturn ==
    /\ tbres.status = "looping"
    /\ tbres.rest = <<>>
    /\ tbres' = [tbres EXCEPT !.status = "returned"]
    /\ UNCHANGED prjvars
    /\ UNCHANGED walk

NextTestbench == TbStep \/ TbReturn

SpecTestbench == InitTestbench /\ [][NextTestbench]_vars

\* ------------------------------------------------- Project.__init__(file)
\* A required key: of the project table (idx 0), of the idx-th entry of the ip
\* sequence, or of the idx-th entry of the spec file's lib sequence.
Key(tab, idx, key) == [tab |-> tab, idx |-> idx, key |-> key]
PKey(key) == Key("project", 0, key)

ProjectKeys == {"language", "top_module", "rtl_dir", "rtl_dir_pattern", "tb_dir",
                "tb_dir_pattern", "tb_file_fmt", "build_dir"}
IpKeys == {"name", "rtl_dir", "rtl_dir_pattern"}
LibKeys == {"name", "path"}

RequiredKeys ==
    {PKey(k) : k \in ProjectKeys}
    \cup {Key("ip", i, k) : i \in 1..MaxIp, k \in IpKeys}
    \cup {Key("lib", i, k) : i \in 1..MaxLibs, k \in LibKeys}

\* What the manifest may say.
TopModules == {A, B}
RtlDirs == {<<".", "rtl">>, <<"rtl">>, <<".", "mix">>, <<".", "gone">>}
TbDirs == {<<".", "tb">>, <<".", "gone">>}
IpNames == {A, B}
IpDirs == {<<".", "ip1">>, <<".", "ip2">>, <<".", "gone">>}
BuildDirs == {<<"build">>, <<"o", ".", "build">>}
\* The tb_file_fmt templates a manifest may give.
ManifestTemplates == {<<Slot>>, <<Slot, "_", "t">>}
SpecPath == <<"prj.spec.toml">>
LibDecl == [name |-> "l", path |-> <<"lib">>]

\* What the spec file may hold: n_lib entries in its lib sequence (none when
\* it has no lib table) and the ext_including_dir sequence (empty when it has
\* none).
ExtLists == {<<>>, <<<<"inc">>>>, <<<<"inc">>, <<"..", "inc">>>>,
             <<<<"..", "inc">>, <<"inc">>>>}
SpecFiles == [n_lib : 0..MaxLibs, ext : ExtLists]

\* What the disk may hold at the build directory's path when __init__ gets
\* there: nothing below an existing parent, nothing below a missing parent, a
\* directory, a regular file.  The working directory exists, so only a build
\* directory below another directory can lack its parent.
BuildDiskStates(build_dir) ==
    {"absent", "dir", "file"}
    \cup (IF SubSeq(AbsPath(build_dir), 1, Len(AbsPath(build_dir)) - 1) = Cwd
          THEN {} ELSE {"no_parent"})

\* d[k] for the keys in order: the position of the first key the table lacks
\* (the lookup that raises KeyError), or Len(keys) + 1.
FirstAbsent(keys) ==
    LET bad == {i \in 1..Len(keys) : keys[i] \in absent}
    IN  IF bad = {} THEN Len(keys) + 1 ELSE CHOOSE i \in bad : \A j \in bad : i <= j

\* The keys looked up when the lookups of keys run in order until one raises.
LookedUp(keys) == {keys[i] : i \in 1..(IF FirstAbsent(keys) > Len(keys) THEN Len(keys)
                                        ELSE FirstAbsent(keys))}

\* Some lookup of keys raises KeyError (caught at the end of __init__).
KeyErrorIgnored(keys) == FALSE
KeyError(keys) == FirstAbsent(keys) <= Len(keys)

\* The project-table values obtained by the lookups of keys, from vals.
Got(keys, vals) ==
    [k \in {keys[i].key : i \in 1..(FirstAbsent(keys) - 1)} |-> vals[k]]

\* The classes of error Project.__init__ ends with.
ManifestIncomplete == "manifest_incomplete"  \* AttributeError('Project file was missing some items.')
MissingFile == "missing_file"                \* AttributeError(f'Missing file {e.filename}.')
StructuralConflict == "structural_conflict"  \* the bare Exception() of the checks
OtherError == "other_error"                  \* an error __init__ neither raises nor converts

\* The statements of the try block of __init__ run in the order written: the
\* step control reaches when step has returned; "done" is the return of
\* __init__.  ("ipsec" is the test of 'ip' in toml_dat, "ip" the loop of
\* _load_ip_cores.)
AfterBuildFirst(step) ==
    CASE step = "load"    -> "build"
      [] step = "build"   -> "props"
      [] step = "props"   -> "tb"
      [] step = "tb"      -> "ipsec"
      [] step = "ipsec"   -> "ip"
      [] step = "ip"      -> "spec"
      [] step = "spec"    -> "include"
      [] step = "include" -> "done"
After(step) ==
    CASE step = "load"    -> "props"
      [] step = "props"   -> "tb"
      [] step = "tb"      -> "ipsec"
      [] step = "ipsec"   -> "ip"
      [] step = "ip"      -> "spec"
      [] step = "spec"    -> "include"
      [] step = "include" -> "build"
      [] step = "build"   -> "done"

\* The outcome of __init__ when control is at step: it has returned a Project
\* once the last statement has run.
ResultAt(step) == IF step = "done" THEN "ok" ELSE "running"

Init ==
    /\ walk = WalkIdle
    /\ tbres = TbIdle
    /\ pc = "load"
    /\ result = "running"
    /\ err = None
    /\ absent \in {{}} \cup {{k} : k \in RequiredKeys}
    /\ looked = {}
    /\ manifest = EmptyMap
    /\ ip_n = 0
    /\ ip_idx = 0
    /\ ip_decl = <<>>
    /\ language = None
    /\ top_module = None
    /\ root_dir = None
    /\ files = EmptyMap
    /\ test_bench = EmptyMap
    /\ ip_cores = <<>>
    /\ libs = <<>>
    /\ ext_including = <<>>
    /\ including_dir = <<>>
    /\ build_out_dir = None
    /\ build_disk = [before |-> "unprobed", after |-> "unprobed"]

Raise(class, what) ==
    /\ result' = class
    /\ err' = what
    /\ pc' = pc

\* toml_dat = rtoml.load(Path(file)); toml_prj_dat = toml_dat['project']
LoadManifest ==
    /\ pc = "load" /\ result = "running"
    /\ \E found \in {"ok", "no_file", "not_toml", "no_project"} :
          IF found = "no_file" THEN Raise(MissingFile, <<"project.toml">>)
          ELSE IF found = "not_toml" THEN Raise(OtherError, <<"project.toml">>)
          ELSE IF found = "no_project" THEN Raise(ManifestIncomplete, None)
          ELSE /\ pc' = After("load")
               /\ UNCHANGED <<result, err>>
    /\ UNCHANGED <<absent, looked, manifest, ip_n, ip_idx, ip_decl, language,
                   top_module, root_dir, files, test_bench, ip_cores, libs,
                   ext_including, including_dir, build_out_dir, build_disk,
                   walk, tbres>>

\* _check_top_module raises
CheckTopSkipped(top, files_) == FALSE
CheckTopModuleRaises(top, files_) == top \notin DOMAIN files_

\* self._load_project_properties(toml_prj_dat)
LoadProjectProperties ==
    /\ pc = "props" /\ result = "running"
    /\ \E top \in TopModules, dir \in RtlDirs, pattern \in Patterns :
          LET keys == <<PKey("language"), PKey("top_module"), PKey("rtl_dir"),
                        PKey("rtl_dir_pattern")>>
              vals == [language |-> <<"verilog">>, top_module |-> top, rtl_dir |-> dir,
                       rtl_dir_pattern |-> pattern]
              got == Got(keys, vals)
              fl == FileLists(dir, pattern)
          IN  /\ looked' = looked \cup LookedUp(keys)
              /\ manifest' = got @@ manifest
              /\ language' = IF "language" \in DOMAIN got THEN got.language ELSE language
              /\ top_module' = IF "top_module" \in DOMAIN got THEN top ELSE top_module
              /\ root_dir' = IF "rtl_dir" \in DOMAIN got THEN AbsPath(dir) ELSE root_dir
              /\ IF KeyError(keys)
                 THEN /\ Raise(ManifestIncomplete, None)
                      /\ files' = files
                 ELSE /\ files' = fl.map
                      /\ IF fl.raised THEN Raise(StructuralConflict, fl.name)
                         ELSE IF CheckTopModuleRaises(top, fl.map)
                         THEN Raise(StructuralConflict, top)
                         ELSE /\ pc' = After("props")
                              /\ UNCHANGED <<result, err>>
    /\ UNCHANGED <<absent, ip_n, ip_idx, ip_decl, test_bench, ip_cores, libs,
                   ext_including, including_dir, build_out_dir, build_disk,
                   walk, tbres>>

\* The walk of tb_dir into test_bench_file, then
\* self.test_bench = self._load_testbench_files(toml_prj_dat, test_bench_file)
LoadTestbench ==
    /\ pc = "tb" /\ result = "running"
    /\ \E dir \in TbDirs, pattern \in Patterns, tb_fmt \in ManifestTemplates :
          LET keys == <<PKey("tb_dir"), PKey("tb_dir_pattern")>>
              fl == FileLists(dir, pattern)
              \* tb_file_fmt is looked up in the loop over self.files, which
              \* holds the top module at least
              allkeys == IF KeyError(keys) \/ fl.raised \/ files = EmptyMap THEN keys
                         ELSE Append(keys, PKey("tb_file_fmt"))
              vals == [tb_dir |-> dir, tb_dir_pattern |-> pattern, tb_file_fmt |-> tb_fmt]
          IN  /\ looked' = looked \cup LookedUp(allkeys)
              /\ manifest' = Got(allkeys, vals) @@ manifest
              /\ IF KeyError(allkeys)
                 THEN /\ Raise(ManifestIncomplete, None)
                      /\ test_bench' = test_bench
                 ELSE IF fl.raised
                 THEN /\ Raise(StructuralConflict, fl.name)
                      /\ test_bench' = test_bench
                 ELSE /\ test_bench' = LoadTestbenchFiles(files, tb_fmt, fl.map)
                      /\ pc' = After("tb")
                      /\ UNCHANGED <<result, err>>
    /\ UNCHANGED <<absent, ip_n, ip_idx, ip_decl, language, top_module, root_dir,
                   files, ip_cores, libs, ext_including, including_dir,
                   build_out_dir, build_disk, walk, tbres>>

\* if 'ip' in toml_dat: ... else: self.ip_cores = {}
IpSection ==
    /\ pc = "ipsec" /\ result = "running"
    /\ \E has_ip \in BOOLEAN, n \in 0..MaxIp :
          /\ ~has_ip => n = 0
          /\ ip_n' = n
          /\ ip_idx' = 1
          /\ pc' = IF n = 0 THEN After("ip") ELSE After("ipsec")
    /\ ip_cores' = <<>>
    /\ UNCHANGED <<result, err, absent, looked, manifest, ip_decl, language,
                   top_module, root_dir, files, test_bench, libs, ext_including,
                   including_dir, build_out_dir, build_disk, walk, tbres>>

\* ip_cores.update({ip_name: ip_info}) on an insertion-ordered dict: a key
\* already present keeps its position and takes the new value.
DictUpdateAppends(d, ip_info) == Append(d, ip_info)
DictUpdate(d, ip_info) ==
    IF \E i \in 1..Len(d) : d[i].name = ip_info.name
    THEN [i \in 1..Len(d) |-> IF d[i].name = ip_info.name THEN ip_info ELSE d[i]]
    ELSE Append(d, ip_info)

\* "if ip_name not in ip_files" of _load_ip_cores
IpCheckSkipped(ip_name, ip_files) == FALSE
IpTopMissing(ip_name, ip_files) == ip_name \notin DOMAIN ip_files

\* One iteration of "for ip in toml_ip_dat" of _load_ip_cores; after the last
\* one the dict is returned and assigned to self.ip_cores.
LoadIpCore ==
    /\ pc = "ip" /\ result = "running"
    /\ ip_idx <= ip_n
    /\ \E ip_name \in IpNames, dir \in IpDirs, pattern \in Patterns :
          LET keys == <<Key("ip", ip_idx, "name"), Key("ip", ip_idx, "rtl_dir"),
                        Key("ip", ip_idx, "rtl_dir_pattern")>>
              fl == FileLists(dir, pattern)
              ip_info == [name |-> ip_name, root_dir |-> AbsPath(dir),
                          rtl_files |-> fl.map]
              outcome == IF KeyError(keys) THEN "key_error"
                         ELSE IF fl.raised THEN "duplicate"
                         ELSE IF IpTopMissing(ip_name, fl.map) THEN "no_top"
                         ELSE "resolved"
              decl == IF KeyError(keys) THEN [outcome |-> outcome]
                      ELSE [outcome |-> outcome, name |-> ip_name, rtl_dir |-> dir,
                            ip_files |-> fl.map]
          IN  /\ looked' = looked \cup LookedUp(keys)
              /\ ip_decl' = Append(ip_decl, decl)
              /\ IF outcome = "key_error"
                 THEN Raise(ManifestIncomplete, None) /\ UNCHANGED <<ip_cores, ip_idx>>
                 ELSE IF outcome = "duplicate"
                 THEN Raise(StructuralConflict, fl.name) /\ UNCHANGED <<ip_cores, ip_idx>>
                 ELSE IF outcome = "no_top"
                 THEN Raise(StructuralConflict, ip_name) /\ UNCHANGED <<ip_cores, ip_idx>>
                 ELSE /\ ip_cores' = DictUpdate(ip_cores, ip_info)
                      /\ ip_idx' = ip_idx + 1
                      /\ pc' = IF ip_idx = ip_n THEN After("ip") ELSE "ip"
                      /\ UNCHANGED <<result, err>>
    /\ UNCHANGED <<absent, manifest, ip_n, language, top_module, root_dir, files,
                   test_bench, libs, ext_including, including_dir, build_out_dir,
                   build_disk, walk, tbres>>

\* LibInfo(name=lib['name'], full_path=os.path.abspath(lib['path']))
LibInfoOf(lib) == [name |-> lib.name, full_path |-> AbsPath(lib.path)]

\* The lookups of the loop "for lib in toml_lib_dat" over n entries.
LibLookups(n) ==
    [i \in 1..(2 * n) |-> Key("lib", (i + 1) \div 2, IF i % 2 = 1 THEN "name" ELSE "path")]

\* including_dir.append(os.path.abspath(inc_dir)) for each inc_dir
AbsAll(dirs) == [i \in 1..Len(dirs) |-> AbsPath(dirs[i])]

\* if 'spec' in toml_prj_dat: (self.libs, ext_including) =
\* self._load_spec_file(spec_file) else: ([], [])
LoadSpec ==
    /\ pc = "spec" /\ result = "running"
    /\ \E has_spec \in BOOLEAN, found \in {"ok", "no_file", "not_toml"}, f \in SpecFiles :
          IF ~has_spec
          THEN /\ libs' = <<>>
               /\ ext_including' = <<>>
               /\ pc' = After("spec")
               /\ UNCHANGED <<result, err, looked, manifest>>
          ELSE IF found = "no_file"
          THEN /\ Raise(MissingFile, AbsPath(SpecPath))
               /\ manifest' = ("spec" :> SpecPath) @@ manifest
               /\ UNCHANGED <<libs, ext_including, looked>>
          ELSE IF found = "not_toml"
          THEN /\ Raise(OtherError, AbsPath(SpecPath))
               /\ manifest' = ("spec" :> SpecPath) @@ manifest
               /\ UNCHANGED <<libs, ext_including, looked>>
          ELSE /\ looked' = looked \cup LookedUp(LibLookups(f.n_lib))
               /\ manifest' = ("spec" :> SpecPath) @@ ("spec_file" :> f) @@ manifest
               /\ IF KeyError(LibLookups(f.n_lib))
                  THEN /\ Raise(ManifestIncomplete, None)
                       /\ UNCHANGED <<libs, ext_including>>
                  ELSE /\ libs' = [i \in 1..f.n_lib |-> LibInfoOf(LibDecl)]
                       /\ ext_including' = AbsAll(f.ext)
                       /\ pc' = After("spec")
                       /\ UNCHANGED <<result, err>>
    /\ UNCHANGED <<absent, ip_n, ip_idx, ip_decl, language, top_module, root_dir,
                   files, test_bench, ip_cores, including_dir, build_out_dir,
                   build_disk, walk, tbres>>

\* The assembly of self.including_dir from self.root_dir, self.ip_cores and
\* ext_including.
IncludingExtFirst(root, cores, ext) ==
    <<root>> \o ext \o [i \in 1..Len(cores) |-> cores[i].root_dir]
Including(root, cores, ext) ==
    <<root>> \o [i \in 1..Len(cores) |-> cores[i].root_dir] \o ext

AssembleIncluding ==
    /\ pc = "include" /\ result = "running"
    /\ including_dir' = Including(root_dir, ip_cores, ext_including)
    /\ pc' = After("include")
    /\ result' = ResultAt(After("include"))
    /\ UNCHANGED <<err, absent, looked, manifest, ip_n, ip_idx, ip_decl,
                   language, top_module, root_dir, files, test_bench, ip_cores,
                   libs, ext_including, build_out_dir, build_disk, walk, tbres>>

\* os.path.abspath(build_dir) + os.sep: the final empty component is the
\* trailing separator.
WithSep(p) == Append(p, "")
BuildOutDir(build_dir) == WithSep(AbsPath(build_dir))

\* The build output directory: os.path.exists, then os.mkdir.  os.mkdir
\* creates one directory: below a missing parent it raises FileNotFoundError,
\* and where a regular file has the name (os.path.exists of the path with its
\* trailing separator is False then) it raises FileExistsError.
MakeBuildDir ==
    /\ pc = "build" /\ result = "running"
    /\ \E build_dir \in BuildDirs :
       \E on_disk \in BuildDiskStates(build_dir) :
          LET keys == <<PKey("build_dir")>>
          IN  /\ looked' = looked \cup LookedUp(keys)
              /\ manifest' = Got(keys, [build_dir |-> build_dir]) @@ manifest
              /\ IF KeyError(keys)
                 THEN /\ Raise(ManifestIncomplete, None)
                      /\ UNCHANGED <<build_out_dir, build_disk>>
                 ELSE /\ build_out_dir' = BuildOutDir(build_dir)
                      /\ IF on_disk = "dir"
                         THEN /\ build_disk' = [before |-> on_disk, after |-> "dir"]
                              /\ pc' = After("build")
                              /\ result' = ResultAt(After("build"))
                              /\ err' = err
                         ELSE IF on_disk = "absent"
                         THEN /\ build_disk' = [before |-> on_disk, after |-> "dir"]
                              /\ pc' = After("build")
                              /\ result' = ResultAt(After("build"))
                              /\ err' = err
                         ELSE IF on_disk = "no_parent"
                         THEN /\ build_disk' = [before |-> on_disk, after |-> on_disk]
                              /\ Raise(MissingFile, BuildOutDir(build_dir))
                         ELSE /\ build_disk' = [before |-> on_disk, after |-> on_disk]
                              /\ Raise(OtherError, BuildOutDir(build_dir))
    /\ UNCHANGED <<absent, ip_n, ip_idx, ip_decl, language, top_module, root_dir,
                   files, test_bench, ip_cores, libs, ext_including,
                   including_dir, walk, tbres>>

Next ==
    \/ LoadManifest
    \/ LoadProjectProperties
    \/ LoadTestbench
    \/ IpSection
    \/ LoadIpCore
    \/ LoadSpec
    \/ AssembleIncluding
    \/ MakeBuildDir

Spec == Init /\ [][Next]_vars

\* ------------------------------------------------------------- properties
\* The stems of the files _file_lists reports for dir and pattern.
DiscoveredStems(dir, pattern) ==
    {FileName(e.file) : e \in {x \in Range(OsWalk(dir)) : RegexpMatch(pattern, dir, x)}}

RtlDiscovered == "rtl_dir_pattern" \in DOMAIN manifest

\* C1: a construction that completes has top_module as a key of files; and
\* once the files under rtl_dir have been discovered with rtl_dir_pattern, a
\* top_module that is the stem of none of them makes construction fail with
\* the structural-conflict error.
C1_TopModuleIsAKeyOfFiles ==
    /\ result = "ok" => top_module \in DOMAIN files
    /\ (RtlDiscovered
        /\ manifest.top_module \notin
              DiscoveredStems(manifest.rtl_dir, manifest.rtl_dir_pattern))
       => result = StructuralConflict

\* C1 witness: files were discovered, none has the top module's stem, and
\* construction ended with the structural conflict naming the top module.
C1_Witness ==
    /\ RtlDiscovered
    /\ files # EmptyMap
    /\ manifest.top_module \notin
          DiscoveredStems(manifest.rtl_dir, manifest.rtl_dir_pattern)
    /\ result = StructuralConflict
    /\ err = manifest.top_module

\* The files of the walk that match the pattern.
Matched == {e \in Range(walk.all) : RegexpMatch(walk.pattern, walk.dir, e)}

SameStem == \E e1, e2 \in Matched : e1 # e2 /\ FileName(e1.file) = FileName(e2.file)

\* C2: a run of the discoverer into one registry ends with the conflict error
\* exactly when two matched files reduce to the same stem, whatever the order
\* of the walk; otherwise the registry holds one entry per matched file.
C2_DuplicateStemIsAConflict ==
    walk.status \in {"returned", "raised"} =>
        IF SameStem
        THEN walk.status = "raised"
        ELSE /\ walk.status = "returned"
             /\ Cardinality(DOMAIN walk.map) = Cardinality(Matched)
             /\ \A e \in Matched : walk.map[FileName(e.file)] = FileInfoOf(walk.dir, e)

\* C2 witness: two different files with one stem were walked and the second
\* registration raised.
C2_Witness ==
    /\ walk.status = "raised"
    /\ Len(walk.all) = 2
    /\ walk.all[1].file # walk.all[2].file
    /\ walk.all[1].sub = walk.all[2].sub
    /\ FileName(walk.all[1].file) = FileName(walk.all[2].file)
    /\ Len(walk.reported) = 2

\* C3: the resolver returns the map m -> F[T(m)] over the modules m of M whose
\* T(m) is a key of F, whatever the iteration order of M; its keys are keys of
\* M throughout.
C3_TestbenchMapIsTheTemplateJoin ==
    tbres.status \in {"looping", "returned"} =>
        /\ DOMAIN tbres.test_bench \subseteq DOMAIN tbres.files
        /\ tbres.status = "returned" =>
              tbres.test_bench =
                 [m \in {x \in DOMAIN tbres.files :
                            Format(tbres.tb_fmt, x) \in DOMAIN tbres.test_bench_files} |->
                     tbres.test_bench_files[Format(tbres.tb_fmt, m)]]

\* C3 witness: the resolver returned with one module matched through a
\* template that changes the name and another module omitted.
C3_Witness ==
    /\ tbres.status = "returned"
    /\ tbres.tb_fmt = <<Slot, "_", "t">>
    /\ A \in DOMAIN tbres.test_bench
    /\ tbres.test_bench[A].filename = At
    /\ B \in DOMAIN tbres.files
    /\ B \notin DOMAIN tbres.test_bench

\* The ext_including_dir sequence of the spec file, empty without a spec file.
SpecExt == IF "spec_file" \in DOMAIN manifest THEN manifest.spec_file.ext ELSE <<>>

Assembled == pc \in {"build", "done"}

\* C4 as stated: including_dir is root_dir, then the root directory of each
\* declared core in declaration order, then the spec file's directories.
C4_Original ==
    Assembled =>
        including_dir = <<AbsPath(manifest.rtl_dir)>>
                        \o [i \in 1..Len(ip_decl) |-> AbsPath(ip_decl[i].rtl_dir)]
                        \o AbsAll(SpecExt)

\* The names of the declarations, each once, in the order of first declaration.
RECURSIVE FirstOccurrences(_, _)
FirstOccurrences(decls, seen) ==
    IF decls = <<>> THEN <<>>
    ELSE IF Head(decls).name \in seen THEN FirstOccurrences(Tail(decls), seen)
    ELSE <<Head(decls).name>>
         \o FirstOccurrences(Tail(decls), seen \cup {Head(decls).name})

\* The declarations resolved so far that carry the name.
Resolved(name) ==
    {i \in 1..Len(ip_decl) : ip_decl[i].outcome = "resolved" /\ ip_decl[i].name = name}

\* The last resolved declaration of the name.
LastDecl(name) ==
    ip_decl[CHOOSE i \in Resolved(name) : \A j \in Resolved(name) : j <= i]

\* C4 amended: including_dir is root_dir, then one directory per distinct core
\* name, in the order the names are first declared, each the root directory of
\* the last declaration of its name, then the spec file's directories in the
\* spec file's order.
C4_IncludingDirOrder ==
    Assembled =>
        LET names == FirstOccurrences(ip_decl, {})
        IN  including_dir = <<AbsPath(manifest.rtl_dir)>>
                            \o [i \in 1..Len(names) |-> AbsPath(LastDecl(names[i]).rtl_dir)]
                            \o AbsAll(SpecExt)

\* C4 witness: a completed construction with two cores of different names and
\* two spec-declared directories.
C4_Witness ==
    /\ result = "ok"
    /\ Len(ip_decl) = 2
    /\ ip_decl[1].name # ip_decl[2].name
    /\ ip_decl[1].rtl_dir # ip_decl[2].rtl_dir
    /\ Len(SpecExt) = 2
    /\ Len(including_dir) = 5

\* C5: a declared core whose name is not a key of its own discovered registry
\* ends construction with the structural-conflict error at that core (it is
\* the last declaration iterated, so none after it is resolved), and every
\* entry of ip_cores has its name among its rtl_files.
C5_IpTopModuleMissingAborts ==
    /\ \A i \in 1..Len(ip_decl) :
          (ip_decl[i].outcome # "key_error"
           /\ ip_decl[i].name \notin DOMAIN ip_decl[i].ip_files)
          => /\ result = StructuralConflict
             /\ i = Len(ip_decl)
             /\ pc = "ip"
    /\ \A n \in 1..Len(ip_cores) : ip_cores[n].name \in DOMAIN ip_cores[n].rtl_files
    /\ result = "ok" => Len(ip_decl) = ip_n

\* C5 witness: the first of two declared cores has files but not its top
\* module; construction ended there and the second was not iterated.
C5_Witness ==
    /\ ip_n = 2
    /\ Len(ip_decl) = 1
    /\ ip_decl[1].outcome = "no_top"
    /\ ip_decl[1].ip_files # EmptyMap
    /\ result = StructuralConflict
    /\ err = ip_decl[1].name
    /\ ip_cores = <<>>

BuildProbed == build_disk.before # "unprobed"

\* C6 as stated, for a manifest that lacks no key: once steps 1 to 7 have
\* succeeded and step 8 has run, a build directory that did not exist has been
\* created, an existing one is no error, and a completed construction has the
\* directory on disk and build_out_dir = abspath(build_dir) + separator.
C6_BuildDirCreated ==
    (absent = {} /\ BuildProbed) =>
        /\ build_disk.before \in {"absent", "no_parent"} =>
              build_disk.after = "dir" /\ result = "ok"
        /\ build_disk.before = "dir" => result = "ok"
        /\ result = "ok" =>
              /\ build_disk.after = "dir"
              /\ build_out_dir = WithSep(AbsPath(manifest.build_dir))

\* The directories and files the manifest has referenced so far that the disk
\* does not hold, as absolute paths.
MissingPaths ==
    {AbsPath(manifest[k]) : k \in {x \in {"rtl_dir", "tb_dir"} :
                                       /\ x \in DOMAIN manifest
                                       /\ AbsPath(manifest[x]) \notin DOMAIN Disk}}
    \cup {AbsPath(ip_decl[i].rtl_dir) :
             i \in {j \in 1..Len(ip_decl) :
                       /\ ip_decl[j].outcome # "key_error"
                       /\ AbsPath(ip_decl[j].rtl_dir) \notin DOMAIN Disk}}
    \cup {AbsPath(manifest[k]) : k \in {x \in {"spec"} :
                                       /\ x \in DOMAIN manifest
                                       /\ "spec_file" \notin DOMAIN manifest
                                       /\ result = MissingFile}}

\* C7 as stated, for a manifest that lacks no key: when a referenced path does
\* not exist, construction ends with the missing-file error naming it.
C7_MissingPathIsMissingFile ==
    (absent = {} /\ MissingPaths # {}) =>
        /\ result = MissingFile
        /\ err \in MissingPaths

\* A required key is absent from a table the manifest files hold: the project
\* table, a declared ip entry, a lib entry of the spec file.
AbsentInManifest ==
    \E k \in absent :
        \/ k.tab = "project" /\ pc # "load"
        \/ k.tab = "ip" /\ k.idx <= ip_n
        \/ /\ k.tab = "lib"
           /\ "spec_file" \in DOMAIN manifest
           /\ k.idx <= manifest.spec_file.n_lib

C9_NameIsFileWithoutSuffix ==
    walk.status \in {"walking", "returned", "raised"} =>
        \A i \in 1..Len(walk.reported) :
            LET info == walk.reported[i]
            IN  /\ info.ext_name = <<>> \/ Head(info.ext_name) = "."
                /\ info.filename \o info.ext_name = info.fullpath.file

\* C10: when declarations share a name and each passes its own check, no
\* error comes of it (a structural conflict of the ip step is a duplicate file
\* stem or a missing top module of the last declaration), ip_cores holds one
\* entry for the name, and the entry is that of the last such declaration.
C10_LaterIpDeclarationOverwrites ==
    /\ \A i \in 1..Len(ip_decl) :
          ip_decl[i].outcome = "resolved" =>
             LET name == ip_decl[i].name
                 last == LastDecl(name)
             IN  /\ Cardinality({k \in 1..Len(ip_cores) : ip_cores[k].name = name}) = 1
                 /\ \A k \in 1..Len(ip_cores) :
                       ip_cores[k].name = name =>
                          /\ ip_cores[k].root_dir = AbsPath(last.rtl_dir)
                          /\ ip_cores[k].rtl_files = last.ip_files
    /\ (pc = "ip" /\ result # "running") =>
          /\ ip_decl # <<>>
          /\ ip_decl[Len(ip_decl)].outcome # "resolved"
          /\ ip_decl[Len(ip_decl)].outcome = "no_top" =>
                ip_decl[Len(ip_decl)].name \notin DOMAIN ip_decl[Len(ip_decl)].ip_files

\* C10 witness: a completed construction whose two declarations share a name
\* and differ in directory and files.
C10_Witness ==
    /\ result = "ok"
    /\ Len(ip_decl) = 2
    /\ ip_decl[1].name = ip_decl[2].name
    /\ ip_decl[1].rtl_dir # ip_decl[2].rtl_dir
    /\ ip_decl[1].ip_files # ip_decl[2].ip_files
    /\ Len(ip_cores) = 1

\* The steps of __init__ before the build directory's.
EarlierSteps == {"load", "props", "tb", "ipsec", "ip", "spec", "include"}

\* __init__ has ended with an error.
Failed == result \notin {"running", "ok"}

\* __init__ has called os.mkdir and the call has made the directory.
DirectoryCreated == build_disk.before = "absent" /\ build_disk.after = "dir"

\* C11: creating the build directory is the last step of construction.  When
\* construction has failed in an earlier step (the manifest load, RTL
\* discovery or the top-module check, testbench discovery, ip-core
\* resolution, spec loading) or in a manifest key lookup (that of build_dir
\* included), the disk has not been touched at the build directory's path: it
\* has not even been probed, and no directory has been created.  A directory
\* that has been created means __init__ has returned a Project.
C11_BuildDirIsTheLastStep ==
    /\ (Failed /\ (pc \in EarlierSteps \/ result = ManifestIncomplete)) =>
          /\ build_disk = [before |-> "unprobed", after |-> "unprobed"]
          /\ build_out_dir = None
    /\ DirectoryCreated => (pc = "done" /\ result = "ok")

\* C11 witness: construction has gone through every step up to spec loading
\* and failed there, the spec file missing, with an ip core resolved before.
C11_Witness ==
    /\ pc = "spec"
    /\ result = MissingFile
    /\ Len(ip_cores) > 0
    /\ build_disk = [before |-> "unprobed", after |-> "unprobed"]

====
